---------------------------- MODULE Spec2Model ----------------------------
(***************************************************************************)
(* Open Responses agent examples (python).                                 *)
(*                                                                         *)
(*   examples/python/reasoning_visibility.py  analyze_reasoning_visibility *)
(*   templates/python/agent_template.py       main, run_agent,             *)
(*                                            create_agent,                *)
(*                                            display_response,            *)
(*                                            execute_tool                 *)
(*                                                                         *)
(* Three programs are modelled over one set of variables:                  *)
(*   SpecVis    demonstrate_reasoning_visibility: one request, then the    *)
(*              visibility analysis of the response;                       *)
(*   SpecAgent  agent_template.main / run_agent;                           *)
(*   SpecTool   a direct call of execute_tool.                             *)
(***************************************************************************)
EXTENDS Integers, Sequences, FiniteSets, TLC

VARIABLES
    pc,               \* position of the running program
    output,           \* response.output of the last response received
    analysis,         \* value returned by analyze_reasoning_visibility
    api_key,          \* CONFIG["api_key"]: is HF_TOKEN set
    use_tools,        \* run_agent's use_tools argument
    remote,           \* behaviour of the remote model behind responses.create
    request,          \* request_params of the last request built
    submissions,      \* number of calls of client.responses.create
    tool_call_count,  \* display_response's counter
    exit_status,      \* process exit status, -1 while running
    call,             \* the function_call handed to execute_tool
    tool_result,      \* value returned by execute_tool
    displayed,        \* what the display loop printed, one label per item
    tools_arg,        \* create_agent's tools argument
    run_mode,         \* multi_provider's MODE
    models,           \* compare_providers' models argument
    idx,              \* compare_providers: position of the for loop in models
    results,          \* compare_providers' results list
    attempted,        \* the models requests were sent for, in order
    summary_lines,    \* compare_providers' summary, one line per result
    item_levels       \* get_reasoning applied to each output item

\* the variables of the comparison, the display trace and the classifier
ext == <<displayed, tools_arg, run_mode, models, idx, results, attempted,
         summary_lines, item_levels>>

vars == <<pc, output, analysis, api_key, use_tools, remote, request,
          submissions, tool_call_count, exit_status, call, tool_result,
          displayed, tools_arg, run_mode, models, idx, results, attempted,
          summary_lines, item_levels>>

-----------------------------------------------------------------------------
(* Bounds *)

MaxOutput == 3
MaxSubmissions == 3
MaxModels == 3

-----------------------------------------------------------------------------
(* Python values.  An attribute that is absent or None is None; a string   *)
(* attribute s is Some(s).  getattr(item, f, None) reads both the same.    *)

None == <<>>
Some(s) == <<s>>

\* Python truthiness of an optional string: None and "" are falsy.
Truthy(v) == v # None /\ v[1] # ""

\* a or b or "" on optional strings: the first truthy operand, else "".
OrStr(a, b) == IF Truthy(a) THEN a[1] ELSE IF Truthy(b) THEN b[1] ELSE ""

\* An output item: type plus the attributes the examples probe with getattr.
Item(t, c, s, e, id, n, a, o) ==
    [type |-> t, content |-> c, summary |-> s, encrypted_content |-> e,
     call_id |-> id, name |-> n, arguments |-> a, output |-> o]

Reasoning(c, s, e) == Item("reasoning", c, s, e, None, None, None, None)
Message(c) == Item("message", Some(c), None, None, None, None, None, None)
FunctionCall(id, n, a) ==
    Item("function_call", None, None, None, Some(id), Some(n), Some(a), None)
FunctionCallOutput(id, o) ==
    Item("function_call_output", None, None, None, Some(id), None, None, Some(o))
OtherKind(t) == Item(t, None, None, None, None, None, None, None)

-----------------------------------------------------------------------------
(* Responses the remote side can send *)

ContentValues == {None, Some(""), Some("think hard")}
SummaryValues == {None, Some(""), Some("brief")}
EncryptedValues == {None, Some(""), Some("gAAA")}

ReasoningItems ==
    {Reasoning(c, s, e) : c \in ContentValues, s \in SummaryValues,
                          e \in EncryptedValues}

MessageDone == Message("done")
CallKnown == FunctionCall("c1", "example_tool", "{\"input\":\"x\"}")
CallSearch == FunctionCall("c2", "search", "{\"query\":\"q3\"}")
ResultKnown == FunctionCallOutput("c1", "Processed: x")

PlainItems == {MessageDone, CallKnown, OtherKind("web_search_call")}

VisItems == ReasoningItems \cup PlainItems

SeqsUpTo(S, n) == UNION {[1..k -> S] : k \in 0..n}

VisOutputs == SeqsUpTo(VisItems, MaxOutput)

-----------------------------------------------------------------------------
(* reasoning_visibility.py *)

\* Faulty variant: the filter condition forgotten.
ReasoningItemsUnfiltered(out) == out

\* Faulty variant: every item that is not of another known kind is kept.
RECURSIVE ReasoningItemsNotKnown(_)
ReasoningItemsNotKnown(out) ==
    IF out = <<>> THEN <<>>
    ELSE IF Head(out).type \notin {"message", "function_call", "function_call_output"}
         THEN <<Head(out)>> \o ReasoningItemsNotKnown(Tail(out))
         ELSE ReasoningItemsNotKnown(Tail(out))

\* Faulty variant: the items collected by prepending, so in reverse order.
RECURSIVE ReasoningItemsReversed(_)
ReasoningItemsReversed(out) ==
    IF out = <<>> THEN <<>>
    ELSE IF Head(out).type = "reasoning"
         THEN ReasoningItemsReversed(Tail(out)) \o <<Head(out)>>
         ELSE ReasoningItemsReversed(Tail(out))

\* [item for item in response.output if item.type == "reasoning"]
RECURSIVE ReasoningItemsOf(_)
ReasoningItemsOf(out) ==
    IF out = <<>> THEN <<>>
    ELSE IF Head(out).type = "reasoning"
         THEN <<Head(out)>> \o ReasoningItemsOf(Tail(out))
         ELSE ReasoningItemsOf(Tail(out))

\* Faulty variant: all() where the code has any().
has_raw_content_all(items) ==
    \A i \in 1..Len(items) :
        Truthy(items[i].content) /\ ~Truthy(items[i].encrypted_content)

has_raw_content(items) ==
    \E i \in 1..Len(items) :
        Truthy(items[i].content) /\ ~Truthy(items[i].encrypted_content)

has_encrypted(items) ==
    \E i \in 1..Len(items) : Truthy(items[i].encrypted_content)

\* Faulty variant: "is not None" where the code tests truthiness.
has_summary_not_none(items) ==
    \E i \in 1..Len(items) : items[i].summary # None

has_summary(items) ==
    \E i \in 1..Len(items) : Truthy(items[i].summary)

\* Faulty variant: summary or content, the operands swapped.
ItemTokensSummaryFirst(item) == Len(OrStr(item.summary, item.content)) \div 4

\* len(content or summary or "") // 4 for one item
ItemTokens(item) == Len(OrStr(item.content, item.summary)) \div 4

RECURSIVE total_reasoning_tokens(_)
total_reasoning_tokens(items) ==
    IF items = <<>> THEN 0
    ELSE ItemTokens(Head(items)) + total_reasoning_tokens(Tail(items))

Result(level, items, tokens, details) ==
    [level |-> level, reasoning_items |-> items,
     total_reasoning_tokens |-> tokens, details |-> details]

\* Faulty variant: the summary test placed after the encrypted test.
analyze_encrypted_before_summary(out) ==
    LET reasoning_items == ReasoningItemsOf(out) IN
    IF reasoning_items = <<>>
    THEN Result("none", <<>>, 0, "No reasoning items found in response.")
    ELSE IF has_raw_content(reasoning_items)
    THEN Result("raw", reasoning_items,
                total_reasoning_tokens(reasoning_items),
                "Full raw reasoning traces available. This model provides complete transparency.")
    ELSE IF has_encrypted(reasoning_items)
    THEN Result("encrypted", reasoning_items, 0,
                "Reasoning is encrypted and not accessible to the client.")
    ELSE IF has_summary(reasoning_items)
    THEN Result("summary", reasoning_items,
                total_reasoning_tokens(reasoning_items),
                "Summarized reasoning available. Raw traces are not exposed.")
    ELSE Result("none", reasoning_items, 0, "Unknown reasoning format.")

\* Faulty variant: the encrypted branch reports the estimate like the others.
analyze_encrypted_with_estimate(out) ==
    LET reasoning_items == ReasoningItemsOf(out) IN
    IF reasoning_items = <<>>
    THEN Result("none", <<>>, 0, "No reasoning items found in response.")
    ELSE IF has_raw_content(reasoning_items)
    THEN Result("raw", reasoning_items,
                total_reasoning_tokens(reasoning_items),
                "Full raw reasoning traces available. This model provides complete transparency.")
    ELSE IF has_summary(reasoning_items)
    THEN Result("summary", reasoning_items,
                total_reasoning_tokens(reasoning_items),
                "Summarized reasoning available. Raw traces are not exposed.")
    ELSE IF has_encrypted(reasoning_items)
    THEN Result("encrypted", reasoning_items,
                total_reasoning_tokens(reasoning_items),
                "Reasoning is encrypted and not accessible to the client.")
    ELSE Result("none", reasoning_items, 0, "Unknown reasoning format.")

analyze_reasoning_visibility(out) ==
    LET reasoning_items == ReasoningItemsOf(out) IN
    IF reasoning_items = <<>>
    THEN Result("none", <<>>, 0, "No reasoning items found in response.")
    ELSE IF has_raw_content(reasoning_items)
    THEN Result("raw", reasoning_items,
                total_reasoning_tokens(reasoning_items),
                "Full raw reasoning traces available. This model provides complete transparency.")
    ELSE IF has_summary(reasoning_items)
    THEN Result("summary", reasoning_items,
                total_reasoning_tokens(reasoning_items),
                "Summarized reasoning available. Raw traces are not exposed.")
    ELSE IF has_encrypted(reasoning_items)
    THEN Result("encrypted", reasoning_items, 0,
                "Reasoning is encrypted and not accessible to the client.")
    ELSE Result("none", reasoning_items, 0, "Unknown reasoning format.")

\* response.output_text: the text of the message items, in order.
RECURSIVE output_text(_)
output_text(out) ==
    IF out = <<>> THEN ""
    ELSE IF Head(out).type = "message"
         THEN OrStr(Head(out).content, None) \o output_text(Tail(out))
         ELSE output_text(Tail(out))

NoAnalysis == Result("unset", <<>>, 0, "")
NoRequest == [unset |-> TRUE]
NoCall == [call_id |-> "", name |-> "", arguments |-> <<>>]
NoResult == [type |-> "unset", value |-> ""]

\* nothing displayed, compared or classified yet
ExtIdle ==
    /\ displayed = <<>>
    /\ tools_arg = None
    /\ run_mode = "unset"
    /\ models = <<>>
    /\ idx = 0
    /\ results = <<>>
    /\ attempted = <<>>
    /\ summary_lines = <<>>
    /\ item_levels = <<>>

Idle ==
    /\ ExtIdle
    /\ api_key = TRUE
    /\ use_tools = FALSE
    /\ remote = "any"
    /\ request = NoRequest
    /\ submissions = 0
    /\ tool_call_count = 0
    /\ call = NoCall
    /\ tool_result = NoResult

\* demonstrate_reasoning_visibility, entered with HF_TOKEN set
InitVis ==
    /\ pc = "vis_start"
    /\ output = <<>>
    /\ analysis = NoAnalysis
    /\ exit_status = -1
    /\ Idle

\* response = create_agent_with_reasoning(...): the remote answers
VisReceive ==
    /\ pc = "vis_start"
    /\ \E out \in VisOutputs : output' = out
    /\ submissions' = submissions + 1
    /\ pc' = "vis_received"
    /\ UNCHANGED <<analysis, api_key, use_tools, remote, request,
                   tool_call_count, exit_status, call, tool_result>>
    /\ UNCHANGED ext

\* ... or the request raises: except Exception -> exit(1)
VisRequestFails ==
    /\ pc = "vis_start"
    /\ submissions' = submissions + 1
    /\ pc' = "exited"
    /\ exit_status' = 1
    /\ UNCHANGED <<output, analysis, api_key, use_tools, remote, request,
                   tool_call_count, call, tool_result>>
    /\ UNCHANGED ext

\* analysis = analyze_reasoning_visibility(response)
VisAnalyze ==
    /\ pc = "vis_received"
    /\ analysis' = analyze_reasoning_visibility(output)
    /\ pc' = "vis_analyzed"
    /\ UNCHANGED <<output, api_key, use_tools, remote, request, submissions,
                   tool_call_count, exit_status, call, tool_result>>
    /\ UNCHANGED ext

\* the rest of the demonstration prints; the process ends normally
VisFinish ==
    /\ pc = "vis_analyzed"
    /\ pc' = "exited"
    /\ exit_status' = 0
    /\ UNCHANGED <<output, analysis, api_key, use_tools, remote, request,
                   submissions, tool_call_count, call, tool_result>>
    /\ UNCHANGED ext

NextVis == VisReceive \/ VisRequestFails \/ VisAnalyze \/ VisFinish

SpecVis == InitVis /\ [][NextVis]_vars

-----------------------------------------------------------------------------
(* agent_template.py *)

\* TOOLS, by name
TOOLS == <<"example_tool">>

\* Faulty variant: "if tools is not None", so an empty list is sent too.
request_params_not_none(tools) ==
    LET base == [model |-> "moonshotai/Kimi-K2-Instruct-0905:groq",
                 instructions |-> "You are a helpful assistant that completes tasks step by step.",
                 input |-> "task",
                 reasoning |-> "medium"]
    IN IF tools # None
       THEN [k \in DOMAIN base \cup {"tools", "tool_choice"} |->
                IF k = "tools" THEN tools[1]
                ELSE IF k = "tool_choice" THEN "auto"
                ELSE base[k]]
       ELSE base

\* create_agent's request_params for a tools argument (None or a list):
\* "if tools:" adds tools and tool_choice only for a non-empty list.
request_params(tools) ==
    LET base == [model |-> "moonshotai/Kimi-K2-Instruct-0905:groq",
                 instructions |-> "You are a helpful assistant that completes tasks step by step.",
                 input |-> "task",
                 reasoning |-> "medium"]
    IN IF tools # None /\ tools[1] # <<>>
       THEN [k \in DOMAIN base \cup {"tools", "tool_choice"} |->
                IF k = "tools" THEN tools[1]
                ELSE IF k = "tool_choice" THEN "auto"
                ELSE base[k]]
       ELSE base

\* run_agent: tools = TOOLS if use_tools else None
run_agent_tools(flag) == IF flag THEN Some(TOOLS) ELSE None

\* a function_call of out with no function_call_output of the same call_id
Unanswered(out, i) ==
    /\ out[i].type = "function_call"
    /\ ~\E j \in 1..Len(out) :
           out[j].type = "function_call_output" /\ out[j].call_id = out[i].call_id

HasUnanswered(out) == \E i \in 1..Len(out) : Unanswered(out, i)

AgentItems ==
    {MessageDone, CallKnown, CallSearch, ResultKnown,
     Reasoning(Some("think hard"), None, None), OtherKind("web_search_call")}

AgentOutputs == SeqsUpTo(AgentItems, MaxOutput)

\* What client.responses.create can return for the k-th request of a run,
\* by the behaviour of the remote model.
RemoteAnswers(mode, k) ==
    IF mode = "always_call"
    THEN {out \in AgentOutputs :
             /\ HasUnanswered(out)
             /\ \A i \in 1..Len(out) : out[i].type # "message"}
    ELSE IF mode = "call_then_done"
    THEN (IF k = 1 THEN {<<CallSearch>>} ELSE {<<MessageDone>>})
    ELSE AgentOutputs

RemoteModes == {"any", "always_call", "call_then_done"}

\* str.upper() on the letters of an item type
LowerLetters == "abcdefghijklmnopqrstuvwxyz"
UpperLetters == "ABCDEFGHIJKLMNOPQRSTUVWXYZ"

\* lower-case letter -> upper-case letter
UpperMap ==
    [ch \in {SubSeq(LowerLetters, i, i) : i \in 1..Len(LowerLetters)} |->
        LET i == CHOOSE i \in 1..Len(LowerLetters) : SubSeq(LowerLetters, i, i) = ch
        IN SubSeq(UpperLetters, i, i)]

UpperChar(ch) == IF ch \in DOMAIN UpperMap THEN UpperMap[ch] ELSE ch

\* the characters of str from position i on, in upper case
RECURSIVE UpperFrom(_, _)
UpperFrom(str, i) ==
    IF i > Len(str) THEN ""
    ELSE UpperChar(SubSeq(str, i, i)) \o UpperFrom(str, i + 1)

Upper(str) == UpperFrom(str, 1)

\* Faulty variant: the type matched by its prefix, so that a
\* function_call_output takes the function_call case.
MatchCasePrefix(type) ==
    IF type \in {"function_call", "function_call_output"} THEN "function_call"
    ELSE IF type \in {"reasoning", "message"} THEN type
    ELSE "_"

\* match item.type: the case an item takes, "_" for the catch-all
MatchCase(type) ==
    IF type \in {"reasoning", "function_call", "function_call_output", "message"}
    THEN type
    ELSE "_"

\* what one pass of the loop prints for an item, n being tool_call_count
\* after the pass; message_tag is "RESPONSE" in display_response and
\* "FINAL RESPONSE" in display_execution_trace
ItemLabel(item, n, message_tag) ==
    LET case == MatchCase(item.type) IN
    IF case = "reasoning" THEN [tag |-> "REASONING", n |-> 0]
    ELSE IF case = "function_call" THEN [tag |-> "TOOL CALL", n |-> n]
    ELSE IF case = "function_call_output" THEN [tag |-> "TOOL RESULT", n |-> 0]
    ELSE IF case = "message" THEN [tag |-> message_tag, n |-> 0]
    ELSE [tag |-> Upper(item.type), n |-> 0]

\* for item in response.output: match item.type ...
RECURSIVE DisplayLoop(_, _, _)
DisplayLoop(out, count, message_tag) ==
    IF out = <<>> THEN <<>>
    ELSE LET n == IF MatchCase(Head(out).type) = "function_call"
                  THEN count + 1 ELSE count
         IN <<ItemLabel(Head(out), n, message_tag)>>
                \o DisplayLoop(Tail(out), n, message_tag)

\* tool_call_count after the loop over response.output
RECURSIVE CountCalls(_)
CountCalls(out) ==
    IF out = <<>> THEN 0
    ELSE (IF MatchCase(Head(out).type) = "function_call" THEN 1 ELSE 0)
            + CountCalls(Tail(out))

\* Faulty variant: a client-side loop, resubmitting while the response holds
\* an unanswered function_call.
after_display_loop(out) == IF HasUnanswered(out) THEN "requesting" ELSE "returned"

\* run_agent after display_response(response): return response
after_display(out) == "returned"

InitAgent ==
    /\ ExtIdle
    /\ pc = "main"
    /\ api_key \in BOOLEAN
    /\ use_tools \in BOOLEAN
    /\ remote \in RemoteModes
    /\ output = <<>>
    /\ analysis = NoAnalysis
    /\ request = NoRequest
    /\ submissions = 0
    /\ tool_call_count = 0
    /\ exit_status = -1
    /\ call = NoCall
    /\ tool_result = NoResult

\* main: if not CONFIG["api_key"]: exit(1)
MainCheckKey ==
    /\ pc = "main"
    /\ IF api_key
       THEN pc' = "run_agent" /\ UNCHANGED exit_status
       ELSE pc' = "exited" /\ exit_status' = 1
    /\ UNCHANGED <<output, analysis, api_key, use_tools, remote, request,
                   submissions, tool_call_count, call, tool_result>>
    /\ UNCHANGED ext

\* run_agent -> create_agent: build request_params
CreateAgent ==
    /\ pc = "run_agent"
    /\ request' = request_params(run_agent_tools(use_tools))
    /\ pc' = "requesting"
    /\ UNCHANGED <<output, analysis, api_key, use_tools, remote, submissions,
                   tool_call_count, exit_status, call, tool_result>>
    /\ UNCHANGED ext

\* response = client.responses.create(**request_params) returns
Submit ==
    /\ pc = "requesting"
    /\ submissions < MaxSubmissions
    /\ submissions' = submissions + 1
    /\ \E out \in RemoteAnswers(remote, submissions + 1) : output' = out
    /\ pc' = "display"
    /\ UNCHANGED <<analysis, api_key, use_tools, remote, request,
                   tool_call_count, exit_status, call, tool_result>>
    /\ UNCHANGED ext

\* Faulty variant: the first failure is retried silently.
on_transport_error_retry(n) == IF n < 2 THEN "requesting" ELSE "exited"

\* where a raising request leads after n submissions: nothing catches the
\* exception before main's except Exception, which prints it and exit(1)
on_transport_error(n) == "exited"

\* ... or raises
SubmitFails ==
    /\ pc = "requesting"
    /\ submissions < MaxSubmissions
    /\ submissions' = submissions + 1
    /\ pc' = on_transport_error(submissions + 1)
    /\ exit_status' = IF pc' = "exited" THEN 1 ELSE exit_status
    /\ UNCHANGED <<output, analysis, api_key, use_tools, remote, request,
                   tool_call_count, call, tool_result>>
    /\ UNCHANGED ext

\* display_response(response); return response
DisplayResponse ==
    /\ pc = "display"
    /\ displayed' = DisplayLoop(output, 0, "RESPONSE")
    /\ tool_call_count' = CountCalls(output)
    /\ pc' = after_display(output)
    /\ UNCHANGED <<output, analysis, api_key, use_tools, remote, request,
                   submissions, exit_status, call, tool_result>>
    /\ UNCHANGED <<tools_arg, run_mode, models, idx, results, attempted,
                   summary_lines, item_levels>>

\* main falls off its end
MainReturn ==
    /\ pc = "returned"
    /\ pc' = "exited"
    /\ exit_status' = 0
    /\ UNCHANGED <<output, analysis, api_key, use_tools, remote, request,
                   submissions, tool_call_count, call, tool_result>>
    /\ UNCHANGED ext

NextAgent ==
    \/ MainCheckKey
    \/ CreateAgent
    \/ Submit
    \/ SubmitFails
    \/ DisplayResponse
    \/ MainReturn

SpecAgent == InitAgent /\ [][NextAgent]_vars

\* The program is one thread that runs its next statement; the request
\* returns or raises.
FairSpecAgent == SpecAgent /\ WF_vars(NextAgent)

-----------------------------------------------------------------------------
(* sub_agent_loop.py *)

\* tools, by name
SubAgentTools ==
    <<"search_documents", "analyze_data", "send_email", "create_report">>

\* the keyword arguments of create_agent_with_tools' request
trace_request ==
    [model |-> "moonshotai/Kimi-K2-Instruct-0905:groq",
     instructions |-> "You are a helpful assistant that completes tasks step by step.",
     input |-> "task",
     tools |-> SubAgentTools,
     tool_choice |-> "auto"]

InitTrace ==
    /\ pc = "sa_main"
    /\ api_key \in BOOLEAN
    /\ remote \in RemoteModes
    /\ ExtIdle
    /\ output = <<>>
    /\ analysis = NoAnalysis
    /\ use_tools = TRUE
    /\ request = NoRequest
    /\ submissions = 0
    /\ tool_call_count = 0
    /\ exit_status = -1
    /\ call = NoCall
    /\ tool_result = NoResult

\* main: if not hf_token: exit(1)
TraceCheckKey ==
    /\ pc = "sa_main"
    /\ IF api_key
       THEN pc' = "sa_requesting" /\ UNCHANGED exit_status
       ELSE pc' = "exited" /\ exit_status' = 1
    /\ UNCHANGED <<output, analysis, api_key, use_tools, remote, request,
                   submissions, tool_call_count, call, tool_result>>
    /\ UNCHANGED ext

\* result = create_agent_with_tools(model, task): the request returns
TraceSubmit ==
    /\ pc = "sa_requesting"
    /\ request' = trace_request
    /\ submissions' = submissions + 1
    /\ \E out \in RemoteAnswers(remote, submissions + 1) : output' = out
    /\ pc' = "sa_display"
    /\ UNCHANGED <<analysis, api_key, use_tools, remote, tool_call_count,
                   exit_status, call, tool_result>>
    /\ UNCHANGED ext

\* ... or raises: main's except Exception -> exit(1)
TraceSubmitFails ==
    /\ pc = "sa_requesting"
    /\ request' = trace_request
    /\ submissions' = submissions + 1
    /\ pc' = "exited"
    /\ exit_status' = 1
    /\ UNCHANGED <<output, analysis, api_key, use_tools, remote,
                   tool_call_count, call, tool_result>>
    /\ UNCHANGED ext

\* display_execution_trace(result)
TraceDisplay ==
    /\ pc = "sa_display"
    /\ displayed' = DisplayLoop(output, 0, "FINAL RESPONSE")
    /\ tool_call_count' = CountCalls(output)
    /\ pc' = "sa_displayed"
    /\ UNCHANGED <<output, analysis, api_key, use_tools, remote, request,
                   submissions, exit_status, call, tool_result>>
    /\ UNCHANGED <<tools_arg, run_mode, models, idx, results, attempted,
                   summary_lines, item_levels>>

\* main falls off its end
TraceReturn ==
    /\ pc = "sa_displayed"
    /\ pc' = "exited"
    /\ exit_status' = 0
    /\ UNCHANGED <<output, analysis, api_key, use_tools, remote, request,
                   submissions, tool_call_count, call, tool_result>>
    /\ UNCHANGED ext

NextTrace ==
    \/ TraceCheckKey
    \/ TraceSubmit
    \/ TraceSubmitFails
    \/ TraceDisplay
    \/ TraceReturn

SpecTrace == InitTrace /\ [][NextTrace]_vars

\* the three programs that walk the items of a response
SpecItems ==
    (InitVis \/ InitAgent \/ InitTrace)
        /\ [][NextVis \/ NextAgent \/ NextTrace]_vars

\* the two programs that send a request with tools
SpecClients == (InitAgent \/ InitTrace) /\ [][NextAgent \/ NextTrace]_vars

-----------------------------------------------------------------------------
(* basic_agent.py *)

\* Faulty variant: the error is printed but the run goes on.
after_key_check_no_exit(token, next) == next

\* if not hf_token: print(...); exit(1)
after_key_check(token, next) == IF token THEN next ELSE "exited"

\* the keyword arguments of create_basic_agent's request
basic_request ==
    [model |-> "moonshotai/Kimi-K2-Instruct-0905:groq",
     instructions |-> "You are a helpful assistant.",
     input |-> "Explain the difference between TCP and UDP in simple terms."]

\* display_response of basic_agent.py: what the loop prints for an item
BasicItemLabel(item) ==
    IF item.type = "reasoning" THEN [tag |-> "REASONING", n |-> 0]
    ELSE IF item.type = "message" THEN [tag |-> "MESSAGE", n |-> 0]
    ELSE [tag |-> Upper(item.type), n |-> 0]

InitBasic ==
    /\ pc = "ba_main"
    /\ api_key \in BOOLEAN
    /\ ExtIdle
    /\ output = <<>>
    /\ analysis = NoAnalysis
    /\ use_tools = FALSE
    /\ remote = "any"
    /\ request = NoRequest
    /\ submissions = 0
    /\ tool_call_count = 0
    /\ exit_status = -1
    /\ call = NoCall
    /\ tool_result = NoResult

\* main: the credential check
BasicCheckKey ==
    /\ pc = "ba_main"
    /\ pc' = after_key_check(api_key, "ba_requesting")
    /\ exit_status' = IF pc' = "exited" THEN 1 ELSE exit_status
    /\ UNCHANGED <<output, analysis, api_key, use_tools, remote, request,
                   submissions, tool_call_count, call, tool_result>>
    /\ UNCHANGED ext

\* result = create_basic_agent(...): the request returns
BasicSubmit ==
    /\ pc = "ba_requesting"
    /\ request' = basic_request
    /\ submissions' = submissions + 1
    /\ \E out \in AgentOutputs : output' = out
    /\ pc' = "ba_display"
    /\ UNCHANGED <<analysis, api_key, use_tools, remote, tool_call_count,
                   exit_status, call, tool_result>>
    /\ UNCHANGED ext

\* ... or raises: except Exception -> exit(1)
BasicSubmitFails ==
    /\ pc = "ba_requesting"
    /\ request' = basic_request
    /\ submissions' = submissions + 1
    /\ pc' = "exited"
    /\ exit_status' = 1
    /\ UNCHANGED <<output, analysis, api_key, use_tools, remote,
                   tool_call_count, call, tool_result>>
    /\ UNCHANGED ext

\* display_response(result)
BasicDisplay ==
    /\ pc = "ba_display"
    /\ displayed' = [i \in 1..Len(output) |-> BasicItemLabel(output[i])]
    /\ pc' = "ba_displayed"
    /\ UNCHANGED <<output, analysis, api_key, use_tools, remote, request,
                   submissions, tool_call_count, exit_status, call, tool_result>>
    /\ UNCHANGED <<tools_arg, run_mode, models, idx, results, attempted,
                   summary_lines, item_levels>>

\* main falls off its end
BasicReturn ==
    /\ pc = "ba_displayed"
    /\ pc' = "exited"
    /\ exit_status' = 0
    /\ UNCHANGED <<output, analysis, api_key, use_tools, remote, request,
                   submissions, tool_call_count, call, tool_result>>
    /\ UNCHANGED ext

NextBasic ==
    \/ BasicCheckKey
    \/ BasicSubmit
    \/ BasicSubmitFails
    \/ BasicDisplay
    \/ BasicReturn

SpecBasic == InitBasic /\ [][NextBasic]_vars

-----------------------------------------------------------------------------
(* get_reasoning (agent_template.py) beside analyze_reasoning_visibility *)

\* Faulty variant: raw content reported without looking at encrypted_content.
get_reasoning_content_first(item) ==
    IF item.type # "reasoning" THEN [level |-> "none", text |-> ""]
    ELSE IF Truthy(item.content)
    THEN [level |-> "raw", text |-> item.content[1]]
    ELSE IF Truthy(item.summary)
    THEN [level |-> "summary", text |-> item.summary[1]]
    ELSE IF Truthy(item.encrypted_content)
    THEN [level |-> "encrypted", text |-> "[encrypted]"]
    ELSE [level |-> "none", text |-> ""]

\* get_reasoning(item) -> (level, text)
get_reasoning(item) ==
    IF item.type # "reasoning" THEN [level |-> "none", text |-> ""]
    ELSE IF Truthy(item.content) /\ ~Truthy(item.encrypted_content)
    THEN [level |-> "raw", text |-> item.content[1]]
    ELSE IF Truthy(item.summary)
    THEN [level |-> "summary", text |-> item.summary[1]]
    ELSE IF Truthy(item.encrypted_content)
    THEN [level |-> "encrypted", text |-> "[encrypted]"]
    ELSE [level |-> "none", text |-> ""]

\* both classifiers applied to one response
InitClassify ==
    /\ pc = "classify_start"
    /\ output \in VisOutputs
    /\ analysis = NoAnalysis
    /\ exit_status = -1
    /\ Idle

\* analysis = analyze_reasoning_visibility(response)
ClassifyAggregate ==
    /\ pc = "classify_start"
    /\ analysis' = analyze_reasoning_visibility(output)
    /\ pc' = "aggregated"
    /\ UNCHANGED <<output, api_key, use_tools, remote, request, submissions,
                   tool_call_count, exit_status, call, tool_result>>
    /\ UNCHANGED ext

\* get_reasoning(item) for each item of response.output
ClassifyItems ==
    /\ pc = "aggregated"
    /\ item_levels' = [i \in 1..Len(output) |-> get_reasoning(output[i])]
    /\ pc' = "classified"
    /\ UNCHANGED <<output, analysis, api_key, use_tools, remote, request,
                   submissions, tool_call_count, exit_status, call, tool_result>>
    /\ UNCHANGED <<displayed, tools_arg, run_mode, models, idx, results,
                   attempted, summary_lines>>

NextClassify ==
    \/ ClassifyAggregate
    \/ ClassifyItems

SpecClassify == InitClassify /\ [][NextClassify]_vars

-----------------------------------------------------------------------------
(* create_agent called with a tools argument of the caller's choice *)

ToolsArgs ==
    {None, Some(<<>>), Some(TOOLS), Some(<<"search_documents", "analyze_data">>)}

InitCreate ==
    /\ pc = "create_agent"
    /\ tools_arg \in ToolsArgs
    /\ displayed = <<>>
    /\ run_mode = "unset"
    /\ models = <<>>
    /\ idx = 0
    /\ results = <<>>
    /\ attempted = <<>>
    /\ summary_lines = <<>>
    /\ item_levels = <<>>
    /\ output = <<>>
    /\ analysis = NoAnalysis
    /\ api_key = TRUE
    /\ use_tools = FALSE
    /\ remote = "any"
    /\ request = NoRequest
    /\ submissions = 0
    /\ tool_call_count = 0
    /\ exit_status = -1
    /\ call = NoCall
    /\ tool_result = NoResult

\* request_params = {...}; if tools: ...
CreateBuild ==
    /\ pc = "create_agent"
    /\ request' = request_params(tools_arg)
    /\ pc' = "create_requesting"
    /\ UNCHANGED <<output, analysis, api_key, use_tools, remote, submissions,
                   tool_call_count, exit_status, call, tool_result>>
    /\ UNCHANGED ext

\* response = client.responses.create(**request_params); return response
CreateSubmit ==
    /\ pc = "create_requesting"
    /\ \E out \in RemoteAnswers(remote, submissions + 1) : output' = out
    /\ submissions' = submissions + 1
    /\ pc' = "create_returned"
    /\ UNCHANGED <<analysis, api_key, use_tools, remote, request,
                   tool_call_count, exit_status, call, tool_result>>
    /\ UNCHANGED ext

\* ... or the call raises, and the exception leaves create_agent
CreateRaises ==
    /\ pc = "create_requesting"
    /\ submissions' = submissions + 1
    /\ pc' = "create_raised"
    /\ UNCHANGED <<output, analysis, api_key, use_tools, remote, request,
                   tool_call_count, exit_status, call, tool_result>>
    /\ UNCHANGED ext

NextCreate == CreateBuild \/ CreateSubmit \/ CreateRaises

SpecCreate == InitCreate /\ [][NextCreate]_vars

-----------------------------------------------------------------------------
(* execute_tool called on a function_call *)

\* arguments.get(key, default) on a decoded arguments dict
Get(arguments, key, default) ==
    IF key \in DOMAIN arguments THEN arguments[key] ELSE default

\* Faulty variant: the name is not matched, every call is processed.
execute_tool_any_name(name, arguments) ==
    "Processed: " \o Get(arguments, "input", "")

\* Faulty variant: the fallback message leaves the name out.
execute_tool_no_name(name, arguments) ==
    IF name = "example_tool"
    THEN "Processed: " \o Get(arguments, "input", "")
    ELSE "Unknown tool"

execute_tool(name, arguments) ==
    IF name = "example_tool"
    THEN "Processed: " \o Get(arguments, "input", "")
    ELSE "Unknown tool: " \o name

\* a Python str value
PyStr(s) == [type |-> "str", value |-> s]

CallIds == {"c1", "c2", "c3"}
ToolNames == {"example_tool", "search", "send_email", ""}
ArgDicts ==
    {<<>>, [input |-> "x"], [input |-> ""], [query |-> "q3"],
     [input |-> "x", query |-> "q3"]}

Calls == [call_id : CallIds, name : ToolNames, arguments : ArgDicts]

InitTool ==
    /\ ExtIdle
    /\ pc = "tool_start"
    /\ call \in Calls
    /\ tool_result = NoResult
    /\ output = <<>>
    /\ analysis = NoAnalysis
    /\ api_key = TRUE
    /\ use_tools = TRUE
    /\ remote = "any"
    /\ request = NoRequest
    /\ submissions = 0
    /\ tool_call_count = 0
    /\ exit_status = -1

\* result = execute_tool(call.name, arguments)
ExecuteTool ==
    /\ pc = "tool_start"
    /\ tool_result' = PyStr(execute_tool(call.name, call.arguments))
    /\ pc' = "tool_done"
    /\ UNCHANGED <<output, analysis, api_key, use_tools, remote, request,
                   submissions, tool_call_count, exit_status, call>>
    /\ UNCHANGED ext

NextTool == ExecuteTool

SpecTool == InitTool /\ [][NextTool]_vars

-----------------------------------------------------------------------------
(* multi_provider.py *)

ModelNames == {"kimi:groq", "llama:together"}

ModelLists == SeqsUpTo(ModelNames, MaxModels)

\* response.usage: None, or an object with the two counts
Usages ==
    {None,
     Some([input_tokens |-> 12, output_tokens |-> 34]),
     Some([input_tokens |-> 0, output_tokens |-> 7])}

CompareResponses ==
    {[usage |-> u, output |-> out] : u \in Usages, out \in {<<>>, <<MessageDone>>}}

\* in_tokens = response.usage.input_tokens if response.usage else 0
in_tokens(response) ==
    IF response.usage # None THEN response.usage[1].input_tokens ELSE 0

\* out_tokens = response.usage.output_tokens if response.usage else 0
out_tokens(response) ==
    IF response.usage # None THEN response.usage[1].output_tokens ELSE 0

\* Faulty variant: the input count left out of the total.
total_tokens_output_only(response) == out_tokens(response)

\* total_tokens = in_tokens + out_tokens
total_tokens(response) == in_tokens(response) + out_tokens(response)

\* results.append({"model": model, "response": response, "duration": duration})
SuccessResult(model, response) ==
    [model |-> model, response |-> response, duration |-> 0]

\* results.append({"model": model, "error": str(e)})
ErrorResult(model) == [model |-> model, error |-> "request failed"]

\* one line of the comparison summary
SummaryLine(result) ==
    IF "response" \in DOMAIN result
    THEN [status |-> "SUCCESS", total_tokens |-> total_tokens(result.response)]
    ELSE [status |-> "FAILED", error |-> result.error]

\* Faulty variant: the exception leaves the for loop.
after_failure_break(i, n) == n + 1

\* the except branch ends the iteration; the for loop goes on
after_failure(i, n) == i + 1

InitCompare ==
    /\ pc = "mp_main"
    /\ api_key \in BOOLEAN
    /\ run_mode \in {"compare", "switch"}
    /\ models \in ModelLists
    /\ idx = 0
    /\ results = <<>>
    /\ attempted = <<>>
    /\ summary_lines = <<>>
    /\ displayed = <<>>
    /\ tools_arg = None
    /\ item_levels = <<>>
    /\ output = <<>>
    /\ analysis = NoAnalysis
    /\ use_tools = FALSE
    /\ remote = "any"
    /\ request = NoRequest
    /\ submissions = 0
    /\ tool_call_count = 0
    /\ exit_status = -1
    /\ call = NoCall
    /\ tool_result = NoResult

\* main: if not hf_token: exit(1); then the mode is chosen
MpCheckKey ==
    /\ pc = "mp_main"
    /\ IF ~api_key
       THEN pc' = "exited" /\ exit_status' = 1 /\ UNCHANGED idx
       ELSE IF run_mode = "compare"
       THEN pc' = "cmp_loop" /\ idx' = 1 /\ UNCHANGED exit_status
       ELSE pc' = "switch_requesting" /\ UNCHANGED <<exit_status, idx>>
    /\ UNCHANGED <<output, analysis, api_key, use_tools, remote, request,
                   submissions, tool_call_count, call, tool_result,
                   displayed, tools_arg, run_mode, models, results, attempted,
                   summary_lines, item_levels>>

\* one iteration of the for loop whose try block completes
CompareSucceeds ==
    /\ pc = "cmp_loop"
    /\ idx <= Len(models)
    /\ \E response \in CompareResponses :
          /\ results' = Append(results, SuccessResult(models[idx], response))
          /\ output' = response.output
    /\ attempted' = Append(attempted, models[idx])
    /\ submissions' = submissions + 1
    /\ idx' = idx + 1
    /\ UNCHANGED <<pc, analysis, api_key, use_tools, remote, request,
                   tool_call_count, exit_status, call, tool_result,
                   displayed, tools_arg, run_mode, models, summary_lines,
                   item_levels>>

\* one iteration whose try block raises
CompareFails ==
    /\ pc = "cmp_loop"
    /\ idx <= Len(models)
    /\ results' = Append(results, ErrorResult(models[idx]))
    /\ attempted' = Append(attempted, models[idx])
    /\ submissions' = submissions + 1
    /\ idx' = after_failure(idx, Len(models))
    /\ UNCHANGED <<pc, output, analysis, api_key, use_tools, remote, request,
                   tool_call_count, exit_status, call, tool_result,
                   displayed, tools_arg, run_mode, models, summary_lines,
                   item_levels>>

\* the summary loop over results
CompareSummary ==
    /\ pc = "cmp_loop"
    /\ idx > Len(models)
    /\ summary_lines' = [i \in 1..Len(results) |-> SummaryLine(results[i])]
    /\ pc' = "cmp_done"
    /\ UNCHANGED <<output, analysis, api_key, use_tools, remote, request,
                   submissions, tool_call_count, exit_status, call,
                   tool_result, displayed, tools_arg, run_mode, models, idx,
                   results, attempted, item_levels>>

\* demonstrate_provider_switching: response = create_agent(...)
SwitchSubmit ==
    /\ pc = "switch_requesting"
    /\ \E response \in CompareResponses : output' = response.output
    /\ submissions' = submissions + 1
    /\ pc' = "switch_done"
    /\ UNCHANGED <<analysis, api_key, use_tools, remote, request,
                   tool_call_count, exit_status, call, tool_result>>
    /\ UNCHANGED ext

\* ... or it raises: main's except Exception -> exit(1)
SwitchFails ==
    /\ pc = "switch_requesting"
    /\ submissions' = submissions + 1
    /\ pc' = "exited"
    /\ exit_status' = 1
    /\ UNCHANGED <<output, analysis, api_key, use_tools, remote, request,
                   tool_call_count, call, tool_result>>
    /\ UNCHANGED ext

\* main falls off its end
MpReturn ==
    /\ pc \in {"cmp_done", "switch_done"}
    /\ pc' = "exited"
    /\ exit_status' = 0
    /\ UNCHANGED <<output, analysis, api_key, use_tools, remote, request,
                   submissions, tool_call_count, call, tool_result>>
    /\ UNCHANGED ext

NextCompare ==
    \/ MpCheckKey
    \/ CompareSucceeds
    \/ CompareFails
    \/ CompareSummary
    \/ SwitchSubmit
    \/ SwitchFails
    \/ MpReturn

SpecCompare == InitCompare /\ [][NextCompare]_vars

\* the main functions of basic_agent.py, agent_template.py, multi_provider.py
SpecMains ==
    (InitBasic \/ InitAgent \/ InitCompare)
        /\ [][NextBasic \/ NextAgent \/ NextCompare]_vars

-----------------------------------------------------------------------------
(* Properties of analyze_reasoning_visibility (SpecVis).  They are stated  *)
(* on the response and the returned dictionary, with their own reading of  *)
(* "non-empty": present and different from the empty string.               *)

Analyzed == analysis.level # "unset"

NonEmpty(v) == v \notin {None, Some("")}

IsReasoning(it) == it.type = "reasoning"

\* the reasoning items of the response received
Rs == SelectSeq(output, IsReasoning)

RawQualifying(it) == NonEmpty(it.content) /\ ~NonEmpty(it.encrypted_content)
SummaryOnly(it) ==
    NonEmpty(it.summary) /\ ~NonEmpty(it.content) /\ ~NonEmpty(it.encrypted_content)
EncryptedOnly(it) ==
    NonEmpty(it.encrypted_content) /\ ~NonEmpty(it.content) /\ ~NonEmpty(it.summary)
ContentAndEncrypted(it) ==
    NonEmpty(it.content) /\ NonEmpty(it.encrypted_content)
AllEmpty(it) ==
    ~NonEmpty(it.content) /\ ~NonEmpty(it.summary) /\ ~NonEmpty(it.encrypted_content)

SomeR(P(_)) == \E i \in 1..Len(Rs) : P(Rs[i])
NoR(P(_)) == \A i \in 1..Len(Rs) : ~P(Rs[i])
HasSummaryItem(it) == NonEmpty(it.summary)
HasEncryptedItem(it) == NonEmpty(it.encrypted_content)

\* C1: whenever at least one reasoning item has non-empty content and empty
\* encrypted_content, the resolved level is raw, whatever the other reasoning
\* items carry.
C1_RawWins ==
    (Analyzed /\ SomeR(RawQualifying)) => analysis.level = "raw"

\* one raw item mixed with a summary-only item and an encrypted-only item
C1_Witness ==
    /\ Analyzed
    /\ Len(Rs) = 3
    /\ SomeR(RawQualifying) /\ SomeR(SummaryOnly) /\ SomeR(EncryptedOnly)
    /\ analysis.level = "raw"

\* C2: for a non-empty list of reasoning items none of which is raw-qualifying,
\* the level is summary exactly when some item has a non-empty summary; one
\* tier is reported for the whole set.
C2_SummaryIffSomeSummary ==
    (Analyzed /\ Rs # <<>> /\ NoR(RawQualifying))
        => (analysis.level = "summary" <=> SomeR(HasSummaryItem))

\* a summary-only item with an encrypted-only one and a content+encrypted one
C2_Witness ==
    /\ Analyzed
    /\ NoR(RawQualifying)
    /\ SomeR(SummaryOnly) /\ SomeR(EncryptedOnly) /\ SomeR(ContentAndEncrypted)
    /\ analysis.level = "summary"

\* C3: with no raw-qualifying item and no non-empty summary, one item with
\* non-empty encrypted_content makes the level encrypted and the token
\* estimate exactly 0, also when an item carries content beside it.
C3_EncryptedZeroTokens ==
    (Analyzed /\ Rs # <<>> /\ NoR(RawQualifying) /\ NoR(HasSummaryItem)
       /\ SomeR(HasEncryptedItem))
        => (analysis.level = "encrypted" /\ analysis.total_reasoning_tokens = 0)

\* an item whose content (10 characters) travels with encrypted_content
C3_Witness ==
    /\ Analyzed
    /\ NoR(RawQualifying) /\ NoR(HasSummaryItem)
    /\ SomeR(ContentAndEncrypted)
    /\ analysis.level = "encrypted"
    /\ analysis.total_reasoning_tokens = 0

\* C4: a response with no item of type reasoning (empty output included)
\* gives level none, an empty reasoning_items list and 0 tokens; the
\* output_text of an empty output is the empty string.
C4_NoReasoningItems ==
    (Analyzed /\ \A i \in 1..Len(output) : output[i].type # "reasoning")
        => /\ analysis.level = "none"
           /\ analysis.reasoning_items = <<>>
           /\ analysis.total_reasoning_tokens = 0
           /\ analysis.details = "No reasoning items found in response."
           /\ (output = <<>> => output_text(output) = "")

\* a non-empty output holding only non-reasoning items
C4_Witness ==
    /\ Analyzed
    /\ Len(output) = 2
    /\ \A i \in 1..Len(output) : output[i].type # "reasoning"
    /\ analysis.level = "none"
    /\ analysis.reasoning_items = <<>>

\* C5: when every reasoning item of a non-empty list has empty or absent
\* content, summary and encrypted_content, the outcome is none / "Unknown
\* reasoning format." with 0 tokens and the reasoning items still returned;
\* and every result carries exactly one of the four levels.
C5_UnknownFormat ==
    Analyzed =>
        /\ analysis.level \in {"raw", "summary", "encrypted", "none"}
        /\ (Rs # <<>> /\ NoR(RawQualifying) /\ NoR(HasSummaryItem)
              /\ NoR(HasEncryptedItem))
            => /\ analysis.level = "none"
               /\ analysis.details = "Unknown reasoning format."
               /\ analysis.total_reasoning_tokens = 0
               /\ analysis.reasoning_items # <<>>
               /\ Len(analysis.reasoning_items) = Len(Rs)

\* two all-empty reasoning items, one with fields absent, one with fields ""
C5_Witness ==
    /\ Analyzed
    /\ Len(Rs) = 2
    /\ \A i \in 1..Len(Rs) : AllEmpty(Rs[i])
    /\ \E i \in 1..Len(Rs) : Rs[i].content = Some("") /\ Rs[i].summary = Some("")
    /\ \E i \in 1..Len(Rs) : Rs[i].content = None /\ Rs[i].summary = None
    /\ analysis.details = "Unknown reasoning format."

\* the text an item contributes to the estimate: content if non-empty, else
\* summary if non-empty, else the empty string
EstimateText(it) ==
    IF NonEmpty(it.content) THEN it.content[1]
    ELSE IF NonEmpty(it.summary) THEN it.summary[1]
    ELSE ""

RECURSIVE SumOver(_, _)
SumOver(items, n) ==
    IF n = 0 THEN 0
    ELSE SumOver(items, n - 1) + (Len(EstimateText(items[n])) \div 4)

\* C6: for the raw and summary levels the estimate is the sum, over all
\* reasoning items, of floor(len(t) / 4) with t the content if non-empty, else
\* the summary if non-empty, else ""; encrypted_content never contributes.
C6_TokenEstimate ==
    (Analyzed /\ analysis.level \in {"raw", "summary"})
        => analysis.total_reasoning_tokens = SumOver(Rs, Len(Rs))

\* a summary-level result whose estimate comes from an item that does not
\* qualify for the tier (content beside encrypted_content) and from a summary
C6_Witness ==
    /\ Analyzed
    /\ analysis.level = "summary"
    /\ SomeR(ContentAndEncrypted)
    /\ \E i \in 1..Len(Rs) : NonEmpty(Rs[i].content) /\ NonEmpty(Rs[i].summary)
    /\ analysis.total_reasoning_tokens = 5

\* C7: the call returns as reasoning_items exactly the reasoning items of
\* response.output, in their order and unchanged, and leaves response.output
\* as it was.
C7_ReasoningItemsUnmodified ==
    [][(pc = "vis_received" /\ pc' = "vis_analyzed")
          => /\ output' = output
             /\ analysis'.reasoning_items = SelectSeq(output, IsReasoning)]_vars

\* two different reasoning items around a non-reasoning item
C7_Witness ==
    /\ Analyzed
    /\ Len(output) = 3
    /\ IsReasoning(output[1]) /\ ~IsReasoning(output[2]) /\ IsReasoning(output[3])
    /\ output[1] # output[3]
    /\ analysis.reasoning_items = <<output[1], output[3]>>

-----------------------------------------------------------------------------
(* Properties of the agent run (SpecAgent, FairSpecAgent) *)

\* C8 as stated: the run dispatches the unanswered function_call items of a
\* response and resubmits, and terminates otherwise; with one tool call
\* followed by the message "done" it ends after exactly two submissions with
\* output_text "done" and exactly one tool call recorded.
C8_LoopUntilNoPendingCall ==
    pc = "returned" =>
        /\ ~HasUnanswered(output)
        /\ remote = "call_then_done"
            => /\ submissions = 2
               /\ output_text(output) = "done"
               /\ tool_call_count = 1

\* C8 (amended): run_agent submits exactly one request, displays the response
\* and returns it whether or not it holds unanswered function_call items; no
\* tool is executed and nothing is resubmitted.  With one tool call followed
\* by "done" the run ends after exactly one submission, on the response that
\* holds the function_call: output_text is empty and one tool call is counted.
C8_SingleSubmission ==
    pc = "returned" =>
        /\ submissions = 1
        /\ tool_result = NoResult
        /\ remote = "call_then_done"
            => /\ output = <<CallSearch>>
               /\ output_text(output) = ""
               /\ tool_call_count = 1

\* the run has returned the response that still holds the pending call
C8_Witness ==
    /\ pc = "returned"
    /\ remote = "call_then_done"
    /\ HasUnanswered(output)
    /\ submissions = 1
    /\ tool_call_count = 1

\* C9 as stated: against a remote that always answers with another
\* function_call, a run whose requests succeed ends in LoopLimitExceeded, a
\* terminal state of its own.
Outcome ==
    IF pc # "exited" THEN "running"
    ELSE IF exit_status = 0 THEN "returned"
    ELSE "failed"

C9_LoopLimitExceeded ==
    (pc = "exited" /\ remote = "always_call" /\ HasUnanswered(output))
        => Outcome = "LoopLimitExceeded"

\* C9 (amended): against a remote that always answers with another
\* function_call the run always reaches a terminal state, because it submits
\* at most one request: it ends with the normal return of that response, or
\* failed; there is no iteration bound and no LoopLimitExceeded state.
C9_TerminatesAfterOneRequest ==
    (remote = "always_call")
        ~> (pc = "exited" /\ submissions <= 1 /\ Outcome \in {"returned", "failed"})

\* the run ended normally on a response that holds an unanswered call
C9_Witness ==
    /\ pc = "exited"
    /\ remote = "always_call"
    /\ HasUnanswered(output)
    /\ submissions = 1
    /\ Outcome = "returned"

-----------------------------------------------------------------------------
(* Properties of execute_tool (SpecTool) *)

\* C10 as stated: dispatching a function_call yields a function_call_output
\* that carries exactly the call_id of the call, for registered and
\* unregistered names.
C10_OutputCarriesCallId ==
    pc = "tool_done" =>
        /\ tool_result.type = "function_call_output"
        /\ tool_result.call_id = call.call_id

\* C10 (amended): execute_tool receives only the name and the arguments and
\* yields a bare result string, "Processed: <input>" for example_tool and
\* "Unknown tool: <name>" for every other name; the result carries no
\* call_id.
C10_BareResultString ==
    pc = "tool_done" =>
        /\ DOMAIN tool_result = {"type", "value"}
        /\ tool_result.type = "str"
        /\ tool_result.value =
              IF call.name = "example_tool"
              THEN (IF "input" \in DOMAIN call.arguments
                    THEN "Processed: " \o call.arguments.input
                    ELSE "Processed: ")
              ELSE "Unknown tool: " \o call.name

\* an unregistered name has been dispatched for call c2
C10_Witness ==
    /\ pc = "tool_done"
    /\ call.call_id = "c2"
    /\ call.name = "search"
    /\ tool_result = PyStr("Unknown tool: search")

\* does string s hold string t as a contiguous part
Contains(s, t) ==
    \E i \in 1..(Len(s) - Len(t) + 1) : SubSeq(s, i, i + Len(t) - 1) = t

StartsWith(s, t) == Len(s) >= Len(t) /\ SubSeq(s, 1, Len(t)) = t

\* C11: execute_tool never raises on an unregistered name: for every name
\* other than the registered one it returns a string tagged "Unknown tool"
\* that contains the literal name; for the registered name it returns the
\* handler's result; nothing but the name and the arguments enters the result.
C11_UnknownToolTagged ==
    pc = "tool_done" =>
        /\ tool_result.type = "str"
        /\ call.name # "example_tool"
            => /\ StartsWith(tool_result.value, "Unknown tool")
               /\ Contains(tool_result.value, call.name)
               /\ ~StartsWith(tool_result.value, "Processed")
        /\ call.name = "example_tool"
            => /\ StartsWith(tool_result.value, "Processed: ")
               /\ (\A k \in DOMAIN call.arguments \ {"input"} :
                      ~Contains(tool_result.value, call.arguments[k]))
               /\ ("input" \in DOMAIN call.arguments
                      => Contains(tool_result.value, call.arguments.input))
        /\ ~Contains(tool_result.value, call.call_id)

\* an unregistered name dispatched with arguments meant for another tool
C11_Witness ==
    /\ pc = "tool_done"
    /\ call.name = "send_email"
    /\ call.arguments = [input |-> "x", query |-> "q3"]
    /\ tool_result.type = "str"
    /\ Contains(tool_result.value, "send_email")

-----------------------------------------------------------------------------
(* Properties of compare_providers (SpecCompare) *)

\* C12: the reported counts default to zero when usage is absent: the total
\* of a response is input_tokens + output_tokens when usage is present (12
\* and 34 give 46) and 0 when it is absent.
C12_UsageDefaultsToZero ==
    pc = "cmp_done" =>
        \A i \in 1..Len(results) :
            "response" \in DOMAIN results[i] =>
                LET u == results[i].response.usage
                    t == summary_lines[i].total_tokens
                IN /\ u = None => t = 0
                   /\ u # None => t = u[1].input_tokens + u[1].output_tokens
                   /\ u = Some([input_tokens |-> 12, output_tokens |-> 34]) => t = 46

\* a summary holding a response with usage 12/34 and one without usage
C12_Witness ==
    /\ pc = "cmp_done"
    /\ Len(results) = 2
    /\ "response" \in DOMAIN results[1] /\ "response" \in DOMAIN results[2]
    /\ results[1].response.usage = Some([input_tokens |-> 12, output_tokens |-> 34])
    /\ results[2].response.usage = None
    /\ summary_lines[1].total_tokens = 46
    /\ summary_lines[2].total_tokens = 0

\* C18: compare_providers isolates failures per model: every model is
\* attempted exactly once in list order whatever fails, and results ends with
\* one entry per model in the same order, each holding either a response or
\* an error, never both.
C18_OneResultPerModel ==
    pc = "cmp_done" =>
        /\ attempted = models
        /\ Len(results) = Len(models)
        /\ \A i \in 1..Len(results) :
              /\ results[i].model = models[i]
              /\ ("response" \in DOMAIN results[i]) # ("error" \in DOMAIN results[i])

\* three models, the first and the last failed, the one between answered
C18_Witness ==
    /\ pc = "cmp_done"
    /\ Len(models) = 3
    /\ models[1] # models[2]
    /\ Len(results) = 3
    /\ "error" \in DOMAIN results[1]
    /\ "response" \in DOMAIN results[2]
    /\ "error" \in DOMAIN results[3]

-----------------------------------------------------------------------------
(* Properties of create_agent's request (SpecCreate) *)

\* C13: a request built by create_agent carries a tools field exactly when
\* the tools list is non-empty, and carries tool_choice, set to auto, exactly
\* when it carries tools; with tools None or an empty list it has neither.
C13_ToolsAndToolChoiceTogether ==
    request # NoRequest =>
        /\ ("tools" \in DOMAIN request)
              <=> (tools_arg \notin {None, Some(<<>>)})
        /\ ("tool_choice" \in DOMAIN request) <=> ("tools" \in DOMAIN request)
        /\ "tools" \in DOMAIN request
              => /\ request.tools = tools_arg[1]
                 /\ Len(request.tools) > 0
                 /\ request.tool_choice = "auto"

\* a request was sent for an empty tools list, with neither field
C13_Witness ==
    /\ pc = "create_returned"
    /\ tools_arg = Some(<<>>)
    /\ DOMAIN request = {"model", "instructions", "input", "reasoning"}

-----------------------------------------------------------------------------
(* Properties of the agent run on a transport failure (SpecAgent) *)

\* the run failed on a request
TransportFailed == pc = "exited" /\ exit_status = 1 /\ submissions > 0

\* C14: a request that fails is not retried: the failing submission leads
\* straight to the failed end of the run (error reported, exit status 1), and
\* no step, so no other submission, follows it.
C14_NoSilentRetry ==
    /\ [][(pc = "requesting" /\ submissions' = submissions + 1 /\ pc' # "display")
             => (pc' = "exited" /\ exit_status' = 1 /\ submissions' = 1
                  /\ output' = <<>>)]_vars
    /\ [](TransportFailed => ~ENABLED NextAgent)

\* the one request of the run failed and the run ended with status 1
C14_Witness ==
    /\ TransportFailed
    /\ api_key
    /\ request # NoRequest
    /\ submissions = 1
    /\ output = <<>>

\* the response has been received by run_agent or create_agent_with_tools
Received ==
    \/ pc \in {"display", "returned", "sa_display", "sa_displayed"}
    \/ pc = "exited" /\ exit_status = 0

\* C16: every run of run_agent / create_agent_with_tools submits exactly one
\* request and keeps the response as it came, pending function_call items
\* included: once the request is sent, no step sends another or changes the
\* output, and execute_tool is never invoked (no call, no tool result).
C16_ExactlyOneRequest ==
    /\ [](/\ submissions <= 1
          /\ Received => submissions = 1
          /\ call = NoCall
          /\ tool_result = NoResult)
    /\ [][submissions = 1 => (submissions' = 1 /\ output' = output)]_vars

\* create_agent_with_tools has returned a response with a pending call
C16_Witness ==
    /\ pc = "sa_displayed"
    /\ submissions = 1
    /\ HasUnanswered(output)
    /\ request = trace_request

\* the display loop has just run over the response
Displayed == pc \in {"returned", "sa_displayed"}

\* positions of the function_call items among the first i items
CallPositions(out, i) == {j \in 1..i : out[j].type = "function_call"}

\* C20: the reported tool-call count is the number of function_call items of
\* response.output, the k-th of them is labelled #k, and the items of every
\* other type, function_call_output included, are not numbered and do not
\* change the count.
C20_CountIsNumberOfCalls ==
    Displayed =>
        /\ tool_call_count = Cardinality(CallPositions(output, Len(output)))
        /\ Len(displayed) = Len(output)
        /\ \A i \in 1..Len(output) :
              IF output[i].type = "function_call"
              THEN displayed[i] =
                      [tag |-> "TOOL CALL",
                       n |-> Cardinality(CallPositions(output, i))]
              ELSE displayed[i].tag # "TOOL CALL" /\ displayed[i].n = 0

\* a trace with two calls and a tool result between them
C20_Witness ==
    /\ pc = "sa_displayed"
    /\ output = <<CallKnown, ResultKnown, CallSearch>>
    /\ tool_call_count = 2
    /\ displayed[3] = [tag |-> "TOOL CALL", n |-> 2]

KnownKinds == {"reasoning", "message", "function_call", "function_call_output"}

IsKnownKind(it) == it.type \in KnownKinds

HasUnknownKind(out) == \E i \in 1..Len(out) : ~IsKnownKind(out[i])

\* the tags the four known cases print
KnownTags == {"REASONING", "TOOL CALL", "TOOL RESULT", "RESPONSE", "FINAL RESPONSE"}

\* C15: an item of an unknown kind is never an error.  The display loops
\* print it through the catch-all branch (its type in upper case), go on to
\* print every following item, and end normally; the analysis of a response
\* has the level, token estimate and reasoning_items of the same response
\* with the unknown-kind items removed, and is followed by a normal end.
C15_UnknownKindIsNoError ==
    /\ [](Displayed =>
            /\ Len(displayed) = Len(output)
            /\ \A i \in 1..Len(output) :
                  /\ IsKnownKind(output[i]) <=> displayed[i].tag \in KnownTags
                  /\ output[i].type = "web_search_call"
                        => displayed[i] = [tag |-> "WEB_SEARCH_CALL", n |-> 0])
    /\ [](Analyzed =>
            LET pruned == analyze_reasoning_visibility(SelectSeq(output, IsKnownKind))
            IN /\ analysis.level = pruned.level
               /\ analysis.total_reasoning_tokens = pruned.total_reasoning_tokens
               /\ analysis.reasoning_items = pruned.reasoning_items)
    /\ [][/\ pc = "display" => pc' = "returned"
          /\ pc = "sa_display" => pc' = "sa_displayed"
          /\ pc = "vis_received" => pc' = "vis_analyzed"
          /\ pc \in {"returned", "sa_displayed", "vis_analyzed"}
                => (pc' = "exited" /\ exit_status' = 0)]_vars

\* a trace displayed with an unknown item before a message
C15_Witness ==
    /\ pc = "sa_displayed"
    /\ output = <<OtherKind("web_search_call"), MessageDone>>
    /\ displayed = <<[tag |-> "WEB_SEARCH_CALL", n |-> 0],
                     [tag |-> "FINAL RESPONSE", n |-> 0]>>

\* an analysed response holding an unknown item beside a reasoning item
C15_WitnessAnalysis ==
    /\ pc = "vis_analyzed"
    /\ HasUnknownKind(output)
    /\ analysis.level = "summary"
    /\ Len(analysis.reasoning_items) = 1

\* RAW > SUMMARY > ENCRYPTED > NONE
LevelRank(level) ==
    IF level = "raw" THEN 3
    ELSE IF level = "summary" THEN 2
    ELSE IF level = "encrypted" THEN 1
    ELSE 0

\* positions of the reasoning items of the response
ReasoningPositions == {i \in 1..Len(output) : output[i].type = "reasoning"}

\* C17: for a response with at least one reasoning item, the level of
\* analyze_reasoning_visibility is the best level (RAW > SUMMARY > ENCRYPTED
\* > NONE) get_reasoning gives to one of its reasoning items; get_reasoning
\* gives (NONE, "") to every item that is not a reasoning item.
C17_ClassifiersAgree ==
    pc = "classified" =>
        /\ \A i \in 1..Len(output) :
              output[i].type # "reasoning"
                  => item_levels[i] = [level |-> "none", text |-> ""]
        /\ ReasoningPositions # {} =>
              /\ \E i \in ReasoningPositions :
                    item_levels[i].level = analysis.level
              /\ \A i \in ReasoningPositions :
                    LevelRank(item_levels[i].level) <= LevelRank(analysis.level)

\* an item with content and encrypted_content beside an encrypted-only item
\* and a message: no item is RAW, the best level is SUMMARY
C17_Witness ==
    /\ pc = "classified"
    /\ Len(output) = 3
    /\ \E i \in ReasoningPositions :
          /\ Truthy(output[i].content)
          /\ Truthy(output[i].encrypted_content)
          /\ item_levels[i].level = "summary"
    /\ \E i \in ReasoningPositions : item_levels[i].level = "encrypted"
    /\ \E i \in 1..Len(output) : output[i].type = "message"
    /\ analysis.level = "summary"

\* main has not yet made its credential check
AtKeyCheck == pc \in {"ba_main", "main", "mp_main"}

\* C19: without the HF_TOKEN credential, main's check ends the run with exit
\* status 1 and no request is ever submitted; a request is submitted only in
\* runs that had the credential at the check.
C19_NoRequestWithoutCredential ==
    /\ submissions > 0 => api_key
    /\ request # NoRequest => api_key
    /\ (~api_key /\ ~AtKeyCheck) =>
          /\ pc = "exited"
          /\ exit_status = 1
          /\ submissions = 0
          /\ output = <<>>

\* multi_provider's main, ended at the check
C19_Witness ==
    /\ ~api_key
    /\ run_mode = "compare"
    /\ Len(models) > 0
    /\ pc = "exited"
    /\ exit_status = 1
    /\ submissions = 0
    /\ results = <<>>

=============================================================================
